---- MODULE Spec2Model ----
(***************************************************************************)
(* bashful: the group scheduler (Task.Process) and the subprocess runner   *)
(* (Task.run) of task.go, as a state machine.                              *)
(*                                                                         *)
(* One scheduler thread processes the groups of the run one after the      *)
(* other; every launched child has a runner goroutine that puts CmdIR      *)
(* records on the buffered channel resultChan.  A step of the scheduler    *)
(* is one whole pass through a case of its select; a step of a runner is   *)
(* the code between two of its blocking points.  This is Spec.             *)
(*                                                                         *)
(* The functions of task.go that run outside the scheduling have their     *)
(* own specifications over their own variables, with the scheduler at      *)
(* rest: SpecCreate (Task.Create and Task.inflate), SpecEta                *)
(* (Task.EstimatedRuntime), SpecSplit (variableSplitFunc under the         *)
(* scanner of readPipe) and SpecRender (what Task.Process does to the      *)
(* terminal).                                                              *)
(***************************************************************************)
EXTENDS Integers, Sequences, FiniteSets, TLC

\* ------------------------------------------------------------------ bounds
NumTasks == 3          \* leaf tasks of the run
MaxPar == 2            \* Options.MaxParallelCmds ranges over 1..MaxPar
MaxLines == 2          \* lines of output the running subprocesses have written, all together
MaxExit == 1           \* exit statuses range over 0..MaxExit

\* -------------------------------------------------------- program constants
ChanCap == 10000       \* make(chan CmdIR, 10000)
UndefinedRC == -1      \* ReturnCode before completion
ZeroTime == 0          \* the zero time.Time of an unset StartTime / StopTime

StatusRunning == "Running"
StatusPending == "Pending"
StatusSuccess == "Success"
StatusError == "Error"

TaskIds == 1..NumTasks
CmdStrings == {"cmd-a", "cmd-b"}
ExitCodes == 0..MaxExit
NoEntry == -1          \* a command string that is not a key of commandTimeCache

VARIABLES
    Options,           \* [MaxParallelCmds]; live (not vintage) rendering, Options.LogPath set
    conf,              \* the groups of the run, in order: each a sequence of task ids
    tasks,             \* task id -> [CmdString, StopOnFailure, IgnoreFailure]
    Command,           \* task id -> TaskCommand
    Display,           \* task id -> Display.Values (Status, Spinner)
    rpc,               \* task id -> position of the task's runner goroutine
    nOut, nErr,        \* task id -> lines its running runner has read from each stream
    returnCode,        \* task id -> the exit status its runner read (returnCode of run)
    resultChan,        \* the records in flight
    sent,              \* task id -> observer of the records its runner has sent
    LogChan,           \* task id -> the task's log channel: "nil", "open" or "closed"
    pc,                \* position of the scheduler thread ("panic", "blocked": it is lost)
    cur,               \* index in conf of the group Process was last called on
    runningCmds, lastStartedTask, failedTasks, groupSuccess,   \* locals of Process
    waiter,            \* counter of the sync.WaitGroup of Process
    exitSignaled, completedTasks, commandTimeCache,            \* globals
    now,               \* the clock read by time.Now(); it advances while Cmd.Wait() blocks
    task, totalTasks, creates,  \* Task.Create: the declared group, the global count, the calls made
    etaSeconds, estimated,      \* Task.EstimatedRuntime: its result, and whether it was called
    data, atEOF, terminalWidth, \* variableSplitFunc: the scanner's buffer, end of input, the width
    advance, token,             \* variableSplitFunc: what the last call returned
    curLine, cursorRow,         \* rendering: curLine of Process, the row the terminal's cursor is on
    renderPc, displayIndex      \* rendering: where Process is, the Display.Index of its tasks

vars == <<Options, conf, tasks, Command, Display, LogChan, rpc,
          nOut, nErr, returnCode, resultChan, sent, pc, cur, runningCmds,
          lastStartedTask, failedTasks, groupSuccess, waiter, exitSignaled,
          completedTasks, commandTimeCache, now,
          task, totalTasks, creates, etaSeconds, estimated,
          data, atEOF, terminalWidth, advance, token,
          curLine, cursorRow, renderPc, displayIndex>>

runnerVars == <<rpc, nOut, nErr, returnCode>>
schedVars == <<pc, cur, runningCmds, lastStartedTask, failedTasks, groupSuccess>>
globalVars == <<exitSignaled, completedTasks, commandTimeCache>>
inputVars == <<Options, conf, tasks>>
createVars == <<task, totalTasks, creates>>
etaVars == <<etaSeconds, estimated>>
splitVars == <<data, atEOF, terminalWidth, advance, token>>
renderVars == <<curLine, cursorRow, renderPc, displayIndex>>
auxVars == <<createVars, etaVars, splitVars, renderVars>>

\* ----------------------------------------------------------------- helpers
Range(s) == {s[k] : k \in 1..Len(s)}

Interval(a, b) == [k \in 1..(b - a + 1) |-> a + k - 1]

Min(a, b) == IF a < b THEN a ELSE b

\* The runs the model draws: the leaf tasks 1..NumTasks in declared order, as
\* one group or cut into two groups that are processed one after the other.
Confs ==
    {<<Interval(1, NumTasks)>>} \cup
    {<<Interval(1, k), Interval(k + 1, NumTasks)>> : k \in 1..(NumTasks - 1)}

\* task.Tasks() of the group at index g.
Tasks(g) == conf[g]

\* The group being processed.
Group == IF cur = 0 THEN <<>> ELSE Tasks(cur)

CmdIR(t, status, out, err, complete, rc) ==
    [Task |-> t, Status |-> status, Stdout |-> out, Stderr |-> err,
     Complete |-> complete, ReturnCode |-> rc]

\* The command strings of the run: the tasks of odd index run one command (as
\* the replicas of a for-each whose command lacks the marker do), the tasks of
\* even index another.
CmdStringOf(i) == IF i % 2 = 1 THEN "cmd-a" ELSE "cmd-b"

\* An unrecovered panic of a goroutine ends the whole process.
Crashed == pc = "panic" \/ \E i \in TaskIds : rpc[i] = "panic"

\* ------------------------------------------------- the task tree as declared
\* Strings are sequences of symbols: a letter, a space, or the replica marker
\* Options.ReplicaReplaceString, which is one symbol here.
ReplicaReplaceString == "%"
Space == " "

\* A Task as the YAML loader leaves it: the runtime fields hold Go's zero
\* values (no template, index 0, return code 0).
RawTask(name, cmd, forEach, children) ==
    [Name |-> name, CmdString |-> cmd, ForEach |-> forEach,
     ParallelTasks |-> children,
     Display |-> [Template |-> "none", Index |-> 0],
     Command |-> [EstimatedRuntime |-> 0, ReturnCode |-> 0]]

\* While the scheduler runs, no tree is being inflated.
CreateIdle ==
    /\ task = RawTask(<<>>, <<>>, <<>>, <<>>)
    /\ totalTasks = 0
    /\ creates = 0

\* No estimate has been asked for.
EtaIdle ==
    /\ etaSeconds = 0
    /\ estimated = FALSE

\* A token a split function returns: nil (some = FALSE) or a slice of bytes.
NilToken == [some |-> FALSE, bytes |-> <<>>]

\* No scanner reads.
SplitIdle ==
    /\ data = <<>>
    /\ atEOF = FALSE
    /\ terminalWidth = 1
    /\ advance = 0
    /\ token = NilToken

\* Nothing is being rendered.
RenderIdle ==
    /\ curLine = 0
    /\ cursorRow = 0
    /\ renderPc = "idle"
    /\ displayIndex = <<>>

AuxIdle == CreateIdle /\ EtaIdle /\ SplitIdle /\ RenderIdle

\* ------------------------------------------------------------------- Init
\* After Task.Create (inflate): ReturnCode = -1, nothing started, the times
\* unset, Display.Values the zero LineInfo; no goroutine runs.
InitCommand ==
    [StartTime |-> ZeroTime, StopTime |-> ZeroTime, Started |-> FALSE,
     Complete |-> FALSE, ReturnCode |-> UndefinedRC]

Init ==
    /\ Options \in [MaxParallelCmds : 1..MaxPar]
    /\ conf \in Confs
    /\ tasks \in [TaskIds -> [CmdString : CmdStrings, StopOnFailure : BOOLEAN,
                              IgnoreFailure : BOOLEAN]]
    /\ \A i \in TaskIds : tasks[i].CmdString = CmdStringOf(i)
    /\ Command = [i \in TaskIds |-> InitCommand]
    /\ Display = [i \in TaskIds |-> [Status |-> "", Spinner |-> ""]]
    /\ rpc = [i \in TaskIds |-> "idle"]
    /\ nOut = [i \in TaskIds |-> 0]
    /\ nErr = [i \in TaskIds |-> 0]
    /\ returnCode = [i \in TaskIds |-> UndefinedRC]
    /\ resultChan = <<>>
    /\ sent = [i \in TaskIds |-> "nothing"]
    /\ LogChan = [i \in TaskIds |-> "nil"]
    /\ pc = "idle"
    /\ cur = 0
    /\ runningCmds = 0
    /\ lastStartedTask = 0
    /\ failedTasks = <<>>
    /\ groupSuccess = StatusSuccess
    /\ waiter = 0
    /\ exitSignaled = FALSE
    /\ completedTasks = 0
    /\ commandTimeCache = [c \in CmdStrings |-> NoEntry]
    /\ now = 1
    /\ AuxIdle

\* ------------------------------------------------------- the runner: Task.run
\* The record sent before any output.
StartRecord(i) == CmdIR(i, StatusRunning, 0, 0, FALSE, UndefinedRC)

\* The records of one line of output; the lines of a stream are numbered from
\* 1 in the order the subprocess writes them (0 stands for the empty string).
StdoutRecord(i, line) == CmdIR(i, StatusRunning, line, 0, FALSE, UndefinedRC)

StderrRecord(i, line) == CmdIR(i, StatusRunning, 0, line, FALSE, UndefinedRC)

\* A faulty variant of NextLine: the scanner hands over the same line again.
NextLine_Repeat(n) == n

\* The scanner of readPipe hands over the stream's lines in order: after n
\* lines the next one is line n + 1.
NextLine(n) == n + 1

\* The lines of output the running subprocesses have written.
RECURSIVE SumTo(_, _)
SumTo(f, n) == IF n = 0 THEN 0 ELSE f[n] + SumTo(f, n - 1)

LinesWritten == SumTo(nOut, NumTasks) + SumTo(nErr, NumTasks)

\* Output is modelled in the runs without parallelism; in the runs with
\* parallelism the commands are silent.  (The scheduler treats a record that
\* is not terminal the same way whatever it carries.)
OutputBound == IF Options.MaxParallelCmds = 1 THEN MaxLines ELSE 0

\* A faulty variant of TerminalStatus: IgnoreFailure is not looked at.
TerminalStatus_NoIgnore(rc, ignoreFailure) ==
    IF rc = 0 THEN StatusSuccess ELSE StatusError

\* The status of the terminal record.
TerminalStatus(rc, ignoreFailure) ==
    IF rc = 0 \/ ignoreFailure THEN StatusSuccess ELSE StatusError

TerminalRecord(i, rc) ==
    CmdIR(i, TerminalStatus(rc, tasks[i].IgnoreFailure), 0, 0, TRUE, rc)

\* Whether the runner sets exitSignaled after its terminal record.
SignalsExit(i, rc) ==
    /\ TerminalStatus(rc, tasks[i].IgnoreFailure) = StatusError
    /\ tasks[i].StopOnFailure

\* The observer of one runner's records: "nothing" sent yet, "running" after a
\* first record that is Running and carries no output, "terminal" after one
\* record with Complete = true and a return code; "disorder" for ever once a
\* record comes out of that order, or a line out of its stream's order.
Observe(state, r) ==
    IF state = "nothing"
    THEN IF r.Status = StatusRunning /\ ~r.Complete /\ r.Stdout = 0 /\ r.Stderr = 0
         THEN "running" ELSE "disorder"
    ELSE IF state = "running"
    THEN IF r.Complete
         THEN IF r.ReturnCode # UndefinedRC /\ r.Stdout = 0 /\ r.Stderr = 0
              THEN "terminal" ELSE "disorder"
         ELSE IF /\ r.Status = StatusRunning
                 /\ \/ r.Stdout = nOut[r.Task] + 1 /\ r.Stderr = 0
                    \/ r.Stderr = nErr[r.Task] + 1 /\ r.Stdout = 0
              THEN "running" ELSE "disorder"
    ELSE "disorder"

\* resultChan <- r
Emit(r) ==
    /\ Len(resultChan) < ChanCap
    /\ resultChan' = Append(resultChan, r)
    /\ sent' = [sent EXCEPT ![r.Task] = Observe(@, r)]

\* The start of run: stamp StartTime and send the first record.
RunStart(i) ==
    /\ ~Crashed
    /\ rpc[i] = "start"
    /\ Command' = [Command EXCEPT ![i].StartTime = now]
    /\ Emit(StartRecord(i))
    /\ rpc' = [rpc EXCEPT ![i] = "setup"]
    /\ UNCHANGED <<auxVars, inputVars, LogChan, Display, nOut, nErr, returnCode,
                   schedVars, waiter, globalVars, now>>

\* From the first record to the select loop: waiter.Add(1), make the task's
\* LogChan, Cmd.Start() (whose error is dropped), start the two readPipe
\* goroutines.
RunSpawn(i) ==
    /\ ~Crashed
    /\ rpc[i] = "setup"
    /\ waiter' = waiter + 1
    /\ LogChan' = [LogChan EXCEPT ![i] = "open"]
    /\ rpc' = [rpc EXCEPT ![i] = "read"]
    /\ UNCHANGED <<auxVars, inputVars, Command, Display, nOut, nErr, returnCode,
                   resultChan, sent, schedVars, globalVars, now>>

\* case stdoutMsg, ok := <-stdoutChan with ok: one more line of standard output.
ForwardStdout(i) ==
    /\ ~Crashed
    /\ rpc[i] = "read"
    /\ LinesWritten < OutputBound
    /\ Emit(StdoutRecord(i, NextLine(nOut[i])))
    /\ nOut' = [nOut EXCEPT ![i] = NextLine(@)]
    /\ UNCHANGED <<auxVars, inputVars, LogChan, Command, Display, rpc, nErr, returnCode,
                   schedVars, waiter, globalVars, now>>

\* case stderrMsg, ok := <-stderrChan with ok: one more line of standard error.
ForwardStderr(i) ==
    /\ ~Crashed
    /\ rpc[i] = "read"
    /\ LinesWritten < OutputBound
    /\ Emit(StderrRecord(i, NextLine(nErr[i])))
    /\ nErr' = [nErr EXCEPT ![i] = NextLine(@)]
    /\ UNCHANGED <<auxVars, inputVars, LogChan, Command, Display, rpc, nOut, returnCode,
                   schedVars, waiter, globalVars, now>>

\* Cmd.Start() had failed (its error was dropped): nothing was written to the
\* pipes, both channels are closed at once and the select loop is left.
\* Cmd.Wait() of a process that was never started returns an error that is no
\* *exec.ExitError and leaves Cmd.ProcessState nil: ProcessState.Sys() then
\* dereferences nil and the goroutine panics, after StopTime was stamped.
RunWaitPanic(i) ==
    /\ ~Crashed
    /\ rpc[i] = "read"
    /\ nOut[i] = 0 /\ nErr[i] = 0
    /\ now' = now + 1
    /\ Command' = [Command EXCEPT ![i].StopTime = now']
    /\ rpc' = [rpc EXCEPT ![i] = "panic"]
    /\ UNCHANGED <<auxVars, inputVars, LogChan, Display, nOut, nErr, returnCode,
                   resultChan, sent, schedVars, waiter, globalVars>>

\* Both streams are at their end (the two channels are closed, the select loop
\* is left) and Cmd.Wait() of the spawned process returns: stamp StopTime,
\* read the exit status, send the terminal record.  Without a write of
\* exitSignaled run returns here and its deferred waiter.Done() runs.
RunWait(i) ==
    /\ ~Crashed
    /\ rpc[i] = "read"
    /\ \E exitStatus \in ExitCodes :
        /\ returnCode' = [returnCode EXCEPT ![i] = exitStatus]
        /\ Emit(TerminalRecord(i, exitStatus))
        /\ IF SignalsExit(i, exitStatus)
             THEN /\ rpc' = [rpc EXCEPT ![i] = "signal"]
                  /\ waiter' = waiter
             ELSE /\ rpc' = [rpc EXCEPT ![i] = "done"]
                  /\ waiter' = waiter - 1
    /\ now' = now + 1
    /\ Command' = [Command EXCEPT ![i].StopTime = now']
    /\ nOut' = [nOut EXCEPT ![i] = 0]
    /\ nErr' = [nErr EXCEPT ![i] = 0]
    /\ UNCHANGED <<auxVars, inputVars, LogChan, Display, schedVars, globalVars>>

\* exitSignaled = true, after the terminal record was sent; then run returns
\* and its deferred waiter.Done() runs.
RunSignal(i) ==
    /\ ~Crashed
    /\ rpc[i] = "signal"
    /\ exitSignaled' = TRUE
    /\ waiter' = waiter - 1
    /\ rpc' = [rpc EXCEPT ![i] = "done"]
    /\ UNCHANGED <<auxVars, inputVars, LogChan, Command, Display, nOut, nErr,
                   returnCode, resultChan, sent, schedVars, completedTasks,
                   commandTimeCache, now>>

\* -------------------------------------------------- the scheduler: Task.Process
\* The hosting loop calls Process on the next group unless exitSignaled was
\* raised.
CallerContinues == ~exitSignaled

\* A faulty variant of InitialStarts: the first loop is not capped by
\* Options.MaxParallelCmds.
InitialStarts_NoCap(maxParallelCmds, n) == n

\* The first loop of Process starts children while
\* lastStartedTask < Options.MaxParallelCmds && lastStartedTask < len(tasks).
InitialStarts(maxParallelCmds, n) == Min(maxParallelCmds, n)

\* for runningCmds > 0
LoopRuns(running) == running > 0

\* if lastStartedTask < len(tasks): a freed slot starts the next child.
StartsNext(last, n) == last < n

\* Faulty variants of NextTask: the child started last is launched again; the
\* last child of the group is launched.
NextTask_Again(group, last) == group[last]

NextTask_Last(group, last) == group[Len(group)]

\* tasks[lastStartedTask] (Go indexes from 0, the sequences here from 1).
NextTask(group, last) == group[last + 1]

\* A faulty variant of CompletedAfter: every record is counted.
CompletedAfter_Every(n, msgObj) == n + 1

\* if msgObj.Complete { completedTasks++ ... }
CompletedAfter(n, msgObj) == IF msgObj.Complete THEN n + 1 ELSE n

\* A faulty variant of Duration: the start time is not subtracted.
Duration_StopOnly(stop, start) == stop

\* eventTask.Command.StopTime.Sub(eventTask.Command.StartTime)
Duration(stop, start) == stop - start

\* if msgObj.Status == StatusError
IsFailure(msgObj) == msgObj.Status = StatusError

\* spinner.Current(): some glyph, never the empty string.
SpinnerCurrent == "spin"

\* What task.String() leaves in Display.Values.Spinner.
ShownSpinner(complete, spinner) == IF complete THEN "" ELSE spinner

\* if exitSignaled { break }: the break is inside the select statement, so it
\* ends the select and not the enclosing for loop; the loop goes on either way.
AfterEvent(signaled) == "loop"

\* if !exitSignaled { waiter.Wait() }
AfterLoop(signaled) == IF ~signaled THEN "wait" ELSE "returned"

\* Process up to its select loop: the placeholder lines, then the first
\* children are launched, each marked Started.
ProcessStart ==
    /\ ~Crashed
    /\ pc \in {"idle", "returned"}
    /\ cur < Len(conf)
    /\ CallerContinues
    /\ LET group == Tasks(cur + 1)
           k == InitialStarts(Options.MaxParallelCmds, Len(group))
           launched == {group[j] : j \in 1..k}
       IN /\ cur' = cur + 1
          /\ Command' = [i \in TaskIds |->
                 IF i \in launched THEN [Command[i] EXCEPT !.Started = TRUE]
                 ELSE IF i \in Range(group)
                      THEN [Command[i] EXCEPT !.Started = FALSE]
                 ELSE Command[i]]
          /\ Display' = [i \in TaskIds |->
                 IF i \in Range(group)
                 THEN [Status |-> StatusPending, Spinner |-> ""]
                 ELSE Display[i]]
          /\ rpc' = [i \in TaskIds |-> IF i \in launched THEN "start" ELSE rpc[i]]
          /\ lastStartedTask' = k
          /\ runningCmds' = k
    /\ failedTasks' = <<>>
    /\ groupSuccess' = StatusSuccess
    /\ waiter' = 0
    /\ pc' = "loop"
    /\ UNCHANGED <<auxVars, inputVars, LogChan, nOut, nErr, returnCode, resultChan,
                   sent, globalVars, now>>

\* case <-ticker.C: every line of the group is repainted with the spinner.
TickSpinner ==
    /\ ~Crashed
    /\ pc = "loop"
    /\ LoopRuns(runningCmds)
    /\ Display' = [i \in TaskIds |->
           IF i \in Range(Group)
           THEN [Display[i] EXCEPT !.Spinner =
                    IF Command[i].Complete \/ ~Command[i].Started
                    THEN "" ELSE ShownSpinner(Command[i].Complete, SpinnerCurrent)]
           ELSE Display[i]]
    /\ UNCHANGED <<auxVars, inputVars, LogChan, Command, runnerVars, resultChan, sent,
                   schedVars, waiter, globalVars, now>>

\* The record is written to the task's log (Options.LogPath is set): it
\* carries a line of output.
LogsLine_Always(msgObj) == TRUE

LogsLine(msgObj) == msgObj.Stdout # 0 \/ msgObj.Stderr # 0

\* What the uses of eventTask.LogChan in one pass come to, for the channel as
\* the pass finds it: close() of a nil or closed channel panics, so does a
\* send on a closed channel; a send on a nil channel blocks for ever.
LogOutcome(chan, closes, logs) ==
    IF closes /\ chan # "open" THEN "panic"
    ELSE IF logs /\ (closes \/ chan = "closed") THEN "panic"
    ELSE IF logs /\ chan = "nil" THEN "blocked"
    ELSE "ok"

\* case msgObj := <-resultChan: the whole case, from the state update of a
\* terminal record (with the launch of the next child) to the check of
\* exitSignaled.
HandleResult ==
    /\ ~Crashed
    /\ pc = "loop"
    /\ LoopRuns(runningCmds)
    /\ resultChan # <<>>
    /\ LET msgObj == Head(resultChan)
           eventTask == msgObj.Task
           starts == msgObj.Complete /\ StartsNext(lastStartedTask, Len(Group))
           next == NextTask(Group, lastStartedTask)
       IN /\ resultChan' = Tail(resultChan)
          /\ completedTasks' = CompletedAfter(completedTasks, msgObj)
          /\ Command' = [i \in TaskIds |->
                 IF starts /\ i = next
                 THEN [Command[i] EXCEPT !.Started = TRUE]
                 ELSE IF msgObj.Complete /\ i = eventTask
                 THEN [Command[i] EXCEPT !.Complete = TRUE,
                                         !.ReturnCode = msgObj.ReturnCode]
                 ELSE Command[i]]
          /\ commandTimeCache' =
                 IF msgObj.Complete
                 THEN [commandTimeCache EXCEPT ![tasks[eventTask].CmdString] =
                          Duration(Command[eventTask].StopTime,
                                   Command[eventTask].StartTime)]
                 ELSE commandTimeCache
          /\ rpc' = IF starts THEN [rpc EXCEPT ![next] = "start"] ELSE rpc
          /\ lastStartedTask' = IF starts THEN lastStartedTask + 1 ELSE lastStartedTask
          /\ runningCmds' = IF ~msgObj.Complete THEN runningCmds
                            ELSE IF starts THEN runningCmds ELSE runningCmds - 1
          /\ groupSuccess' = IF msgObj.Complete /\ IsFailure(msgObj)
                             THEN StatusError ELSE groupSuccess
          /\ failedTasks' = IF msgObj.Complete /\ IsFailure(msgObj)
                            THEN Append(failedTasks, eventTask) ELSE failedTasks
          /\ Display' = [Display EXCEPT ![eventTask] =
                            [Status |-> msgObj.Status,
                             Spinner |-> ShownSpinner(msgObj.Complete, SpinnerCurrent)]]
          /\ LogChan' = IF msgObj.Complete /\ LogChan[eventTask] = "open"
                         THEN [LogChan EXCEPT ![eventTask] = "closed"] ELSE LogChan
          /\ pc' = LET outcome == LogOutcome(LogChan[eventTask], msgObj.Complete,
                                             LogsLine(msgObj))
                   IN  IF outcome = "ok" THEN AfterEvent(exitSignaled) ELSE outcome
    /\ UNCHANGED <<auxVars, inputVars, nOut, nErr, returnCode, sent, cur, waiter,
                   exitSignaled, now>>

\* The loop ends with runningCmds = 0; the runners are awaited unless
\* exitSignaled is set.
LoopExit ==
    /\ ~Crashed
    /\ pc = "loop"
    /\ ~LoopRuns(runningCmds)
    /\ pc' = AfterLoop(exitSignaled)
    /\ UNCHANGED <<auxVars, inputVars, LogChan, Command, Display, runnerVars,
                   resultChan, sent, cur, runningCmds, lastStartedTask, failedTasks,
                   groupSuccess, waiter, globalVars, now>>

\* waiter.Wait() returns when the counter is zero; Process then returns
\* failedTasks.
AwaitRunners ==
    /\ ~Crashed
    /\ pc = "wait"
    /\ waiter = 0
    /\ pc' = "returned"
    /\ UNCHANGED <<auxVars, inputVars, LogChan, Command, Display, runnerVars,
                   resultChan, sent, cur, runningCmds, lastStartedTask, failedTasks,
                   groupSuccess, waiter, globalVars, now>>

\* ------------------------------------------------------------ specification
Next ==
    \/ ProcessStart
    \/ TickSpinner
    \/ HandleResult
    \/ LoopExit
    \/ AwaitRunners
    \/ \E i \in TaskIds : RunStart(i)
    \/ \E i \in TaskIds : RunSpawn(i)
    \/ \E i \in TaskIds : ForwardStdout(i)
    \/ \E i \in TaskIds : ForwardStderr(i)
    \/ \E i \in TaskIds : RunWait(i)
    \/ \E i \in TaskIds : RunWaitPanic(i)
    \/ \E i \in TaskIds : RunSignal(i)

Spec == Init /\ [][Next]_vars

\* ------------------------------------------------------------------ claims
\* The children of group g that are started and not complete.
RunningChildren(g) ==
    {i \in Range(Tasks(g)) : Command[i].Started /\ ~Command[i].Complete}

\* The step is a pass through case msgObj := <-resultChan (the only steps that
\* take a record off the channel).
HandlesRecord == Len(resultChan') < Len(resultChan)

\* The children of the group being processed that are not started.
Unstarted == {k \in 1..Len(Group) : ~Command[Group[k]].Started}

\* The terminal records in flight.
TerminalsInFlight == {k \in 1..Len(resultChan) : resultChan[k].Complete}

\* C1: in every state, in every group, at most Options.MaxParallelCmds
\* children are started and not complete, and their number in the group being
\* processed is the scheduler's runningCmds.
C1_ConcurrencyCap ==
    /\ \A g \in 1..Len(conf) :
          Cardinality(RunningChildren(g)) <= Options.MaxParallelCmds
    /\ runningCmds = IF cur = 0 THEN 0 ELSE Cardinality(RunningChildren(cur))

\* The cap binds: two children run, a third waits for a free slot.
C1_Witness ==
    /\ cur > 0
    /\ Options.MaxParallelCmds = 2
    /\ Cardinality(RunningChildren(cur)) = 2
    /\ Unstarted # {}

\* C2: with MaxParallelCmds = 1, once a child with StopOnFailure (and without
\* IgnoreFailure) has completed with a nonzero return code, no later child of
\* its group is started.
C2_NoStartAfterStopFailure ==
    \A j, k \in 1..Len(Group) :
        ( /\ Options.MaxParallelCmds = 1
          /\ j < k
          /\ tasks[Group[j]].StopOnFailure
          /\ ~tasks[Group[j]].IgnoreFailure
          /\ Command[Group[j]].Complete
          /\ Command[Group[j]].ReturnCode # 0 )
        => ~Command[Group[k]].Started

\* C3: a pass through the record case that ends with exitSignaled set leaves
\* the scheduler loop.
C3_LoopLeftOnExitSignal ==
    [][(pc = "loop" /\ exitSignaled /\ HandlesRecord) => pc' # "loop"]_vars

\* The children of the group Process has returned from that failed: nonzero
\* return code and no IgnoreFailure.
FailedChildren ==
    {i \in Range(Group) : Command[i].ReturnCode # 0 /\ ~tasks[i].IgnoreFailure}

\* C4: when Process returns, every child of the group is complete with the
\* exit status of its subprocess as return code; failedTasks holds exactly the
\* children with a nonzero return code and no IgnoreFailure, each once, and
\* these are the children whose last record had status Error; the others,
\* among them the children with IgnoreFailure and a nonzero return code, ended
\* with status Success.
C4_FailedTasksReturned ==
    pc = "returned" =>
        /\ \A i \in Range(Group) :
              /\ Command[i].Complete
              /\ Command[i].ReturnCode = returnCode[i]
              /\ Command[i].ReturnCode \in ExitCodes
              /\ Display[i].Status =
                    IF i \in FailedChildren THEN StatusError ELSE StatusSuccess
        /\ Range(failedTasks) = FailedChildren
        /\ Len(failedTasks) = Cardinality(FailedChildren)

\* Process has returned from a group with a child that failed and a child
\* whose failure was ignored.
C4_Witness ==
    /\ pc = "returned"
    /\ failedTasks # <<>>
    /\ \E i \in Range(Group) :
          /\ tasks[i].IgnoreFailure
          /\ Command[i].ReturnCode # 0
          /\ Display[i].Status = StatusSuccess
          /\ i \notin Range(failedTasks)

C6_SpawnFailureSurfaced ==
    \A i \in TaskIds :
        rpc[i] = "panic" =>
            /\ sent[i] = "terminal"
            /\ \/ \E k \in 1..Len(resultChan) :
                     resultChan[k] = CmdIR(i, StatusError, 0, 0, TRUE, -1)
               \/ Command[i].Complete /\ Command[i].ReturnCode = -1

\* The statuses a line goes through.
StatusStep(old, new) ==
    \/ new = old
    \/ old = "" /\ new = StatusPending
    \/ old = StatusPending /\ new = StatusRunning
    \/ old = StatusRunning /\ new \in {StatusSuccess, StatusError}

\* C7: every task is launched at most once (its runner begins from a task that
\* is not started); Started and Complete go from false to true only, Complete
\* only on a started task; the status of its line goes Pending, Running, then
\* Success or Error, and is Success or Error exactly when the task is complete.
C7_Lifecycle ==
    [][\A i \in TaskIds :
          /\ Command[i].Started => Command'[i].Started
          /\ Command[i].Complete => Command'[i].Complete
          /\ Command'[i].Complete => Command[i].Started
          /\ (rpc[i] # "start" /\ rpc'[i] = "start") =>
                (rpc[i] = "idle" /\ ~Command[i].Started /\ Command'[i].Started)
          /\ StatusStep(Display[i].Status, Display'[i].Status)
          /\ Command'[i].Complete <=>
                Display'[i].Status \in {StatusSuccess, StatusError}]_vars

\* A task has gone through the whole cycle and ended with status Error.
C7_Witness ==
    \E i \in TaskIds :
        /\ Command[i].Started
        /\ Command[i].Complete
        /\ Display[i].Status = StatusError
        /\ rpc[i] = "done"

\* C8: the started children of the group being processed are the first
\* lastStartedTask children in declared order, and a pass through the record
\* case that handles a terminal record while children are unstarted starts the
\* unstarted child of lowest index, and no other.
C8_StartOrder ==
    /\ [](\A k \in 1..Len(Group) : Command[Group[k]].Started <=> k <= lastStartedTask)
    /\ [][(HandlesRecord /\ Head(resultChan).Complete /\ Unstarted # {}) =>
             LET lowest == CHOOSE k \in Unstarted : \A m \in Unstarted : k <= m
             IN /\ Command'[Group[lowest]].Started
                /\ rpc'[Group[lowest]] = "start"
                /\ \A m \in Unstarted \ {lowest} : ~Command'[Group[m]].Started]_vars

\* With one slot, the third child of a group of three has been started after
\* the first two completed.
C8_Witness ==
    /\ Options.MaxParallelCmds = 1
    /\ Len(Group) = 3
    /\ Command[Group[1]].Complete
    /\ Command[Group[2]].Complete
    /\ Command[Group[3]].Started

\* C9: completedTasks never decreases, and it is the number of terminal
\* records the runners have sent less those still in flight, that is the
\* number of terminal records the scheduler loops have taken off the channel.
C9_CompletedTasks ==
    /\ [](completedTasks =
            Cardinality({i \in TaskIds : sent[i] = "terminal"})
            - Cardinality(TerminalsInFlight))
    /\ [][completedTasks' >= completedTasks]_vars

\* The second group is being processed and the counter holds the terminal
\* records of both groups.
C9_Witness ==
    /\ cur = 2
    /\ completedTasks = NumTasks
    /\ \E i \in Range(Tasks(1)) : Command[i].Complete

\* C10 as stated: for every complete task the cache entry of its command
\* string is its StopTime less its StartTime.
C10_CacheHoldsOwnDuration ==
    \A i \in TaskIds :
        Command[i].Complete =>
            commandTimeCache[tasks[i].CmdString] =
                Command[i].StopTime - Command[i].StartTime

\* C10, amended: the step that completes a task sets the cache entry of its
\* command string to its StopTime less its StartTime, and an entry changes
\* only in a step that completes a task with that command string (so for
\* tasks with the same command string it holds the duration of the one that
\* was completed last).
C10_CacheHoldsLastDuration ==
    [][/\ \A i \in TaskIds :
             (~Command[i].Complete /\ Command'[i].Complete) =>
                 commandTimeCache'[tasks[i].CmdString] =
                     Command'[i].StopTime - Command'[i].StartTime
       /\ \A c \in CmdStrings :
             commandTimeCache'[c] # commandTimeCache[c] =>
                 \E i \in TaskIds : /\ tasks[i].CmdString = c
                                    /\ ~Command[i].Complete
                                    /\ Command'[i].Complete]_vars

\* Two tasks with the same command string are complete, with different
\* durations, and a task with another command string is complete too.
C10_Witness ==
    \E i, j, k \in TaskIds :
        /\ i # j
        /\ tasks[i].CmdString = tasks[j].CmdString
        /\ tasks[k].CmdString # tasks[i].CmdString
        /\ Command[i].Complete /\ Command[j].Complete /\ Command[k].Complete
        /\ Command[i].StopTime - Command[i].StartTime
              # Command[j].StopTime - Command[j].StartTime
        /\ commandTimeCache[tasks[j].CmdString] =
              Command[j].StopTime - Command[j].StartTime

\* ------------------------------------------- the scheduler at rest (other runs)
\* The specifications of the load-time and pure functions below leave the
\* scheduler and the runners where Init puts them, for one fixed run.
ProcessIdle ==
    /\ conf = <<Interval(1, NumTasks)>>
    /\ tasks = [i \in TaskIds |-> [CmdString |-> CmdStringOf(i),
                                   StopOnFailure |-> FALSE, IgnoreFailure |-> FALSE]]
    /\ Command = [i \in TaskIds |-> InitCommand]
    /\ Display = [i \in TaskIds |-> [Status |-> "", Spinner |-> ""]]
    /\ rpc = [i \in TaskIds |-> "idle"]
    /\ nOut = [i \in TaskIds |-> 0]
    /\ nErr = [i \in TaskIds |-> 0]
    /\ returnCode = [i \in TaskIds |-> UndefinedRC]
    /\ resultChan = <<>>
    /\ sent = [i \in TaskIds |-> "nothing"]
    /\ LogChan = [i \in TaskIds |-> "nil"]
    /\ pc = "idle"
    /\ cur = 0
    /\ runningCmds = 0
    /\ lastStartedTask = 0
    /\ failedTasks = <<>>
    /\ groupSuccess = StatusSuccess
    /\ waiter = 0
    /\ exitSignaled = FALSE
    /\ completedTasks = 0
    /\ commandTimeCache = [c \in CmdStrings |-> NoEntry]
    /\ now = 1

\* =========================================================== Task.Create
MaxChildren == 2       \* declared children of the group
MaxReplicas == 2       \* values of a for-each list
MaxCreates == 2        \* calls of Task.Create on the tree

lineDefaultTemplate == "default"
lineParallelTemplate == "parallel"
lineLastParallelTemplate == "last-parallel"

SeqsUpTo(S, n) == UNION {[1..k -> S] : k \in 0..n}

\* The declared children the model draws: with and without a name, with an
\* empty command, a plain one and one that is only the marker; for-each values
\* a word or a blank.
DeclaredNames == {<<>>, <<"n", ReplicaReplaceString>>}
DeclaredCmds == {<<>>, <<"c">>, <<ReplicaReplaceString>>}
ReplicaValues == {<<"v">>, <<Space>>}
DeclaredChildren ==
    {RawTask(n, c, f, <<>>) :
        n \in DeclaredNames, c \in DeclaredCmds, f \in SeqsUpTo(ReplicaValues, MaxReplicas)}
DeclaredTasks ==
    {RawTask(<<"g">>, c, <<>>, ch) :
        c \in {<<>>, <<"c">>}, ch \in SeqsUpTo(DeclaredChildren, MaxChildren)}

\* The durations loaded into commandTimeCache before the tree is inflated.
LoadedEta(cmdString) == IF cmdString = <<"c">> THEN 2 ELSE -1

\* strings.Replace(s, Options.ReplicaReplaceString, value, -1)
RECURSIVE Replace(_, _)
Replace(s, value) ==
    IF s = <<>> THEN <<>>
    ELSE IF Head(s) = ReplicaReplaceString THEN value \o Replace(Tail(s), value)
    ELSE <<Head(s)>> \o Replace(Tail(s), value)

\* strings.Split(cmdString, " ")[0]: the symbols before the first space.
RECURSIVE ArgvHead(_)
ArgvHead(s) ==
    IF s = <<>> \/ Head(s) = Space THEN <<>>
    ELSE <<Head(s)>> \o ArgvHead(Tail(s))

inflate(t, displayIdx, replicaValue) ==
    LET cmdString == IF replicaValue # <<>> THEN Replace(t.CmdString, replicaValue)
                     ELSE t.CmdString
        name == IF t.Name = <<>> THEN cmdString
                ELSE IF replicaValue # <<>> THEN Replace(t.Name, replicaValue)
                ELSE t.Name
    IN  [t EXCEPT !.CmdString = cmdString,
                  !.Name = name,
                  !.Command = [EstimatedRuntime |-> LoadedEta(cmdString),
                               ReturnCode |-> UndefinedRC],
                  !.Display = [Template |-> lineDefaultTemplate, Index |-> displayIdx]]

\* The template a plain child at declared position subIndex (from 0) gets.
PlainTemplate(subIndex, declared) ==
    IF subIndex = declared - 1 THEN lineLastParallelTemplate ELSE lineParallelTemplate

\* The template the replica at subReplicaIndex (from 0) gets.
ReplicaTemplate(subReplicaIndex, replicas) ==
    IF subReplicaIndex = replicas - 1 THEN lineLastParallelTemplate
    ELSE lineParallelTemplate

RECURSIVE Create(_, _, _), CreateChildren(_, _, _, _), CreateReplicas(_, _, _)

\* The first k replicas of the for-each child sub, appended to finalTasks. The
\* loop works on the one Task value of the slice: every pass restores its
\* name and command, creates it again and appends a copy.
CreateReplicas(sub, finalTasks, k) ==
    IF k = 0 THEN [sub |-> sub, finalTasks |-> finalTasks, added |-> 0]
    ELSE LET prev == CreateReplicas(sub, finalTasks, k - 1)
             made == Create([prev.sub EXCEPT !.Name = sub.Name,
                                             !.CmdString = sub.CmdString],
                            k - 1, sub.ForEach[k])
             copy == [made.task EXCEPT
                         !.Display.Template = ReplicaTemplate(k - 1, Len(sub.ForEach))]
         IN  [sub |-> copy, finalTasks |-> Append(prev.finalTasks, copy),
              added |-> prev.added + made.added]

\* finalTasks after the passes of the loop over the first k declared children.
CreateChildren(children, replicaValue, k, declared) ==
    IF k = 0 THEN [finalTasks |-> <<>>, added |-> 0]
    ELSE LET prev == CreateChildren(children, replicaValue, k - 1, declared)
             sub == children[k]
         IN  IF Len(sub.ForEach) > 0
             THEN LET reps == CreateReplicas(sub, prev.finalTasks, Len(sub.ForEach))
                  IN  [finalTasks |-> reps.finalTasks, added |-> prev.added + reps.added]
             ELSE LET plain == [inflate(sub, k - 1, replicaValue)
                                   EXCEPT !.Display.Template = PlainTemplate(k - 1, declared)]
                  IN  [finalTasks |-> Append(prev.finalTasks, plain),
                       added |-> prev.added + 1]

\* Task.Create: the task after the call and what the call adds to totalTasks.
Create(t, displayStartIdx, replicaValue) ==
    LET inflated == inflate(t, displayStartIdx, replicaValue)
        kids == CreateChildren(inflated.ParallelTasks, replicaValue,
                               Len(inflated.ParallelTasks), Len(inflated.ParallelTasks))
    IN  [task |-> [inflated EXCEPT !.ParallelTasks = kids.finalTasks],
         added |-> (IF inflated.CmdString # <<>> THEN 1 ELSE 0) + kids.added]

\* The loader calls Create on a top-level task with no replica value.
CreateTask ==
    /\ creates < MaxCreates
    /\ LET made == Create(task, 0, <<>>)
       IN  /\ task' = made.task
           /\ totalTasks' = totalTasks + made.added
    /\ creates' = creates + 1
    /\ UNCHANGED <<etaVars, splitVars, renderVars, inputVars, LogChan, Command, Display,
                   runnerVars, resultChan, sent, schedVars, waiter, globalVars, now>>

InitCreate ==
    /\ ProcessIdle
    /\ EtaIdle
    /\ SplitIdle
    /\ RenderIdle
    /\ Options = [MaxParallelCmds |-> 1]
    /\ task \in DeclaredTasks
    /\ totalTasks = 0
    /\ creates = 0

NextCreate == CreateTask

SpecCreate == InitCreate /\ [][NextCreate]_vars

\* The inflated children of the tree.
Children == task.ParallelTasks

\* C11: after Task.Create the Display.Index of every inflated child is its
\* position in the inflated list, so the indexes are a permutation of
\* [0, number of inflated children).
C11_IndexIsPosition ==
    creates = 1 => \A k \in 1..Len(Children) : Children[k].Display.Index = k - 1

\* C12: after Task.Create exactly the last child of the inflated list has the
\* last-parallel template and every other child the inner-parallel template.
C12_LastTemplate ==
    creates = 1 =>
        \A k \in 1..Len(Children) :
            Children[k].Display.Template =
                IF k = Len(Children) THEN lineLastParallelTemplate
                ELSE lineParallelTemplate

\* What C13 compares of the children: their number, names, command strings,
\* display indexes and templates.
ChildrenView ==
    [k \in 1..Len(Children) |->
        [Name |-> Children[k].Name, CmdString |-> Children[k].CmdString,
         Index |-> Children[k].Display.Index,
         Template |-> Children[k].Display.Template]]

\* C13: Task.Create on a tree Task.Create has inflated leaves the list of
\* children unchanged.
C13_Idempotent == [][creates >= 1 => ChildrenView' = ChildrenView]_vars

\* A task that is not a group and has nothing to execute: the first token of
\* its command is empty.
Malformed(t) == t.ParallelTasks = <<>> /\ ArgvHead(t.CmdString) = <<>>

\* C14: inflation rejects a task that is not a group and whose command is
\* empty: no such task is among the children Task.Create leaves to be run.
C14_MalformedRejected ==
    creates >= 1 => \A k \in 1..Len(Children) : ~Malformed(Children[k])

\* ================================================== Task.EstimatedRuntime
MaxEtaTasks == 4       \* children of the group whose runtime is estimated
MaxEta == 2            \* known estimates range over 1..MaxEta (whole seconds)

\* An unknown estimate: time.Duration(-1).
UnknownEta == -1

\* An inflated leaf with the given command and estimate.
EtaLeaf(cmd, eta) ==
    [inflate(RawTask(<<>>, cmd, <<>>, <<>>), 0, <<>>)
        EXCEPT !.Command.EstimatedRuntime = eta]

EtaLeaves == {EtaLeaf(c, e) : c \in {<<>>, <<"c">>}, e \in {UnknownEta} \cup 1..MaxEta}

\* The tasks whose runtime the model estimates: a group of leaves, or a task
\* with a command of its own.
EtaTasks ==
    {[EtaLeaf(c, 1) EXCEPT !.ParallelTasks = ch] :
        c \in {<<>>, <<"c">>}, ch \in SeqsUpTo(EtaLeaves, MaxEtaTasks)}

RECURSIVE MinOf(_), MaxOf(_), remove(_, _)

\* MinMax(array): the smallest and the largest value.
MinOf(a) ==
    IF Len(a) = 1 THEN a[1]
    ELSE LET m == MinOf(Tail(a)) IN IF a[1] < m THEN a[1] ELSE m

MaxOf(a) ==
    IF Len(a) = 1 THEN a[1]
    ELSE LET m == MaxOf(Tail(a)) IN IF a[1] > m THEN a[1] ELSE m

\* remove(slice, value): the slice without one occurrence of value.
remove(slice, value) ==
    IF slice = <<>> THEN <<>>
    ELSE IF Head(slice) = value THEN Tail(slice)
    ELSE <<Head(slice)>> \o remove(Tail(slice), value)

\* A child that enters the simulation: it has a command and a known estimate.
HasEta(t) == t.CmdString # <<>> /\ t.Command.EstimatedRuntime # UnknownEta

\* The second the simulation stands at once the first task to stop has stopped.
AdvanceTo_Stay(minEndSecond, currentSecond) == currentSecond

AdvanceTo(minEndSecond, currentSecond) == minEndSecond

\* The locals of the loop after its passes over the first k children.
RECURSIVE EtaLoop(_, _)
EtaLoop(children, k) ==
    IF k = 0
    THEN [remainingParallelTasks |-> Options.MaxParallelCmds, taskEndSecond |-> <<>>,
          currentSecond |-> 0, maxParallelEstimatedRuntime |-> 0]
    ELSE LET prev == EtaLoop(children, k - 1)
             subTask == children[k]
         IN  IF ~HasEta(subTask) THEN prev
             ELSE LET freed ==
                          IF prev.remainingParallelTasks = 0
                          THEN [prev EXCEPT
                                   !.remainingParallelTasks = @ + 1,
                                   !.taskEndSecond = remove(@, MinOf(@)),
                                   !.currentSecond = AdvanceTo(MinOf(prev.taskEndSecond), @)]
                          ELSE prev
                      ends == Append(freed.taskEndSecond,
                                     freed.currentSecond + subTask.Command.EstimatedRuntime)
                  IN  [remainingParallelTasks |-> freed.remainingParallelTasks - 1,
                       taskEndSecond |-> ends,
                       currentSecond |-> freed.currentSecond,
                       maxParallelEstimatedRuntime |->
                           IF MaxOf(ends) > prev.maxParallelEstimatedRuntime
                           THEN MaxOf(ends) ELSE prev.maxParallelEstimatedRuntime]

EstimatedRuntime(t) ==
    (IF HasEta(t) THEN t.Command.EstimatedRuntime ELSE 0)
        + EtaLoop(t.ParallelTasks, Len(t.ParallelTasks)).maxParallelEstimatedRuntime

EstimateRuntime ==
    /\ ~estimated
    /\ etaSeconds' = EstimatedRuntime(task)
    /\ estimated' = TRUE
    /\ UNCHANGED <<createVars, splitVars, renderVars, inputVars, LogChan, Command,
                   Display, runnerVars, resultChan, sent, schedVars, waiter, globalVars,
                   now>>

InitEta ==
    /\ ProcessIdle
    /\ Options \in [MaxParallelCmds : 1..MaxPar]
    /\ task \in EtaTasks
    /\ totalTasks = 0
    /\ creates = 0
    /\ EtaIdle
    /\ SplitIdle
    /\ RenderIdle

NextEta == EstimateRuntime

SpecEta == InitEta /\ [][NextEta]_vars

\* The children of the group that have a known estimate.
KnownChildren == {k \in 1..Len(Children) : HasEta(Children[k])}

\* ceil(n / p) for p >= 1.
CeilDiv(n, p) == (n + p - 1) \div p

\* C15: on a group whose children with a known estimate all have the estimate
\* D, with P = Options.MaxParallelCmds >= 1, EstimatedRuntime returns
\* D * ceil(N / P), N the number of those children; children with an unknown
\* estimate do not contribute.
C15_IdenticalEstimates ==
    (estimated /\ task.CmdString = <<>>) =>
        \A D \in 1..MaxEta :
            (\A k \in KnownChildren : Children[k].Command.EstimatedRuntime = D) =>
                etaSeconds =
                    D * CeilDiv(Cardinality(KnownChildren), Options.MaxParallelCmds)

\* Three children with an estimate and one without run two at a time: two rounds.
C15_Witness ==
    /\ estimated
    /\ task.CmdString = <<>>
    /\ Options.MaxParallelCmds = 2
    /\ Cardinality(KnownChildren) = 3
    /\ Len(Children) = 4
    /\ \A k \in KnownChildren : Children[k].Command.EstimatedRuntime = 2
    /\ etaSeconds = 4

\* ===================================================== variableSplitFunc
MaxData == 4           \* bytes in the scanner's buffer
MaxWidth == 2          \* terminal.Width() ranges over 1..MaxWidth

LF == "\n"
CR == "\r"
Bytes == {LF, CR, "x"}

\* strings.Index(string(data), b): the index from 0 of the first b, or -1.
RECURSIVE Index(_, _)
Index(bytes, b) ==
    IF bytes = <<>> THEN -1
    ELSE IF Head(bytes) = b THEN 0
    ELSE LET i == Index(Tail(bytes), b) IN IF i < 0 THEN -1 ELSE i + 1

\* data[0:i]
Slice(bytes, i) == [some |-> TRUE, bytes |-> SubSeq(bytes, 1, i)]

variableSplitFunc(bytes, eof, width) ==
    IF eof /\ Len(bytes) = 0 THEN [advance |-> 0, token |-> NilToken]
    ELSE IF Index(bytes, LF) >= 0
    THEN [advance |-> Index(bytes, LF) + 1,
          token |-> Slice(bytes, Index(bytes, LF))]
    ELSE IF Index(bytes, CR) >= 0
    THEN [advance |-> Index(bytes, CR) + 1,
          token |-> Slice(bytes, Index(bytes, CR))]
    ELSE IF Len(bytes) > width * 2
    THEN [advance |-> width * 2, token |-> Slice(bytes, width * 2)]
    ELSE IF eof THEN [advance |-> Len(bytes), token |-> Slice(bytes, Len(bytes))]
    ELSE [advance |-> 0, token |-> NilToken]

\* The scanner calls the split function on its buffer and drops the bytes
\* the call consumed.
Scan ==
    /\ LET r == variableSplitFunc(data, atEOF, terminalWidth)
       IN  /\ advance' = r.advance
           /\ token' = r.token
           /\ data' = SubSeq(data, r.advance + 1, Len(data))
    /\ UNCHANGED <<atEOF, terminalWidth, createVars, etaVars, renderVars, inputVars,
                   LogChan, Command, Display, runnerVars, resultChan, sent, schedVars,
                   waiter, globalVars, now>>

\* The pipe is closed: the scanner has read all there is.
ReadEOF ==
    /\ ~atEOF
    /\ atEOF' = TRUE
    /\ UNCHANGED <<data, terminalWidth, advance, token, createVars, etaVars, renderVars,
                   inputVars, LogChan, Command, Display, runnerVars, resultChan, sent,
                   schedVars, waiter, globalVars, now>>

InitSplit ==
    /\ ProcessIdle
    /\ Options = [MaxParallelCmds |-> 1]
    /\ CreateIdle
    /\ EtaIdle
    /\ RenderIdle
    /\ data \in SeqsUpTo(Bytes, MaxData)
    /\ atEOF = FALSE
    /\ terminalWidth \in 1..MaxWidth
    /\ advance = 0
    /\ token = NilToken

NextSplit == Scan \/ ReadEOF

SpecSplit == InitSplit /\ [][NextSplit]_vars

\* The position from 1 of the first LF or CR of the buffer, 0 when it has none.
FirstTerminator(bytes) ==
    IF \E k \in 1..Len(bytes) : bytes[k] \in {LF, CR}
    THEN CHOOSE k \in 1..Len(bytes) :
            /\ bytes[k] \in {LF, CR}
            /\ \A j \in 1..(k - 1) : bytes[j] \notin {LF, CR}
    ELSE 0

\* C16: a call of variableSplitFunc on a buffer that holds a LF or a CR ends
\* the token right before the first of them and consumes it, and no token
\* the function emits holds a LF or a CR.
C16_TokenEndsAtFirstTerminator ==
    [][atEOF' = atEOF =>
        /\ token'.some => \A k \in 1..Len(token'.bytes) : token'.bytes[k] \notin {LF, CR}
        /\ FirstTerminator(data) > 0 =>
              /\ token' = Slice(data, FirstTerminator(data) - 1)
              /\ advance' = FirstTerminator(data)]_vars

\* ====================================== Task.Process on the terminal (live)
\* What Process does to the terminal when Options.Vintage is off: the line
\* curLine it believes the cursor to be on, and the row cursorRow the cursor is
\* on, counted from the first line the group rendered.  The ticks and the
\* records arrive in any order.
MaxRows == 3           \* tasks of the rendered group

\* A position: curLine of Process and the row of the terminal's cursor.
Position(line, row) == [curLine |-> line, cursorRow |-> row]

\* The cursor moved up by moves rows (down when negative), curLine with it.
Move(c, moves) == Position(c.curLine - moves, c.cursorRow - moves)

\* display(message, curLine, targetIdx): go to the line targetIdx, write the
\* message and a newline.
display(c, targetIdx) ==
    LET at == Move(c, c.curLine - targetIdx)
    IN  Position(at.curLine + 1, at.cursorRow + 1)

\* task.display(&curLine) for the first k tasks, in order.
RECURSIVE DisplayTasks(_, _)
DisplayTasks(c, k) ==
    IF k = 0 THEN c ELSE display(DisplayTasks(c, k - 1), displayIndex[k])

\* The summary line, below the lines of the tasks.
DisplayFooter(c) ==
    IF Options.ShowSummaryFooter THEN display(c, Len(displayIndex)) ELSE c

\* The title of a group of more than one task: a line of its own, and the
\* message "\n" after it.
RoomForTitle(c) ==
    IF Len(displayIndex) > 1 THEN Position(c.curLine, c.cursorRow + 1) ELSE c

\* Back on the title to complete the status of the group.
CompleteTitle(c) ==
    IF Len(displayIndex) > 1 THEN Move(c, c.curLine + 1) ELSE c

\* The section is collapsed.
Collapses == Options.CollapseOnCompletion /\ Len(displayIndex) > 1

\* Erase the lines of the section and head back to its top.
Collapse(c) ==
    LET top == Move(c, c.curLine)
        n == Len(displayIndex) + (IF Options.ShowSummaryFooter THEN 1 ELSE 0)
        erased == Position(top.curLine + n, top.cursorRow + n)
    IN  Move(erased, erased.curLine)

\* The moves that reset the cursor to the bottom of the section.
ResetMoves_LastLine(line, lenTasks) == line - (lenTasks - 1)

ResetMoves(line, lenTasks) == line - lenTasks

RenderStart ==
    /\ renderPc = "idle"
    /\ LET c == DisplayTasks(RoomForTitle(Position(0, 0)), Len(displayIndex))
       IN  /\ curLine' = c.curLine
           /\ cursorRow' = c.cursorRow
    /\ renderPc' = "loop"
    /\ UNCHANGED <<displayIndex, createVars, etaVars, splitVars, inputVars, LogChan,
                   Command, Display, runnerVars, resultChan, sent, schedVars, waiter,
                   globalVars, now>>

\* case <-ticker.C
RenderTick ==
    /\ renderPc = "loop"
    /\ LET c == DisplayFooter(DisplayTasks(Position(curLine, cursorRow),
                                           Len(displayIndex)))
       IN  /\ curLine' = c.curLine
           /\ cursorRow' = c.cursorRow
    /\ UNCHANGED <<renderPc, displayIndex, createVars, etaVars, splitVars, inputVars,
                   LogChan, Command, Display, runnerVars, resultChan, sent, schedVars,
                   waiter, globalVars, now>>

\* case msgObj := <-resultChan, for a record of the task at position k
RenderRecord(k) ==
    /\ renderPc = "loop"
    /\ LET c == DisplayFooter(display(Position(curLine, cursorRow), displayIndex[k]))
       IN  /\ curLine' = c.curLine
           /\ cursorRow' = c.cursorRow
    /\ UNCHANGED <<renderPc, displayIndex, createVars, etaVars, splitVars, inputVars,
                   LogChan, Command, Display, runnerVars, resultChan, sent, schedVars,
                   waiter, globalVars, now>>

\* After the loop: the title, then collapse or rest below the section.
RenderFinish ==
    /\ renderPc = "loop"
    /\ LET titled == CompleteTitle(Position(curLine, cursorRow))
           c == IF Collapses THEN Collapse(titled)
                ELSE Move(titled, ResetMoves(titled.curLine, Len(displayIndex)))
       IN  /\ curLine' = c.curLine
           /\ cursorRow' = c.cursorRow
    /\ renderPc' = "done"
    /\ UNCHANGED <<displayIndex, createVars, etaVars, splitVars, inputVars, LogChan,
                   Command, Display, runnerVars, resultChan, sent, schedVars, waiter,
                   globalVars, now>>

InitRender ==
    /\ ProcessIdle
    /\ CreateIdle
    /\ EtaIdle
    /\ SplitIdle
    /\ Options \in [MaxParallelCmds : {1}, CollapseOnCompletion : BOOLEAN,
                    ShowSummaryFooter : BOOLEAN]
    /\ displayIndex \in UNION {[1..n -> 0..(n - 1)] : n \in 1..MaxRows}
    /\ curLine = 0
    /\ cursorRow = 0
    /\ renderPc = "idle"

NextRender ==
    \/ RenderStart
    \/ RenderTick
    \/ \E k \in 1..Len(displayIndex) : RenderRecord(k)
    \/ RenderFinish

SpecRender == InitRender /\ [][NextRender]_vars

\* C17 (as claimed): when Process has completed a group without collapse, the
\* cursor rests |children| rows below the first line the group rendered, the
\* header when the group has more than one child.
C17_CursorBelowFirstLine ==
    (renderPc = "done" /\ ~Collapses) => cursorRow = Len(displayIndex)

\* C17 (amended): when Process has completed a group without collapse,
\* curLine is |children| and the cursor rests |children| rows below the line
\* of the first child: |children| + 1 rows below the header of a group of
\* more than one child, |children| rows below the line of a single task.
C17_CursorBelowChildren ==
    (renderPc = "done" /\ ~Collapses) =>
        /\ curLine = Len(displayIndex)
        /\ cursorRow = Len(displayIndex) + (IF Len(displayIndex) > 1 THEN 1 ELSE 0)

\* A group of three children, not collapsed: the cursor is four rows below the header.
C17_Witness ==
    /\ renderPc = "done"
    /\ ~Collapses
    /\ displayIndex = <<0, 1, 2>>
    /\ cursorRow = 4

\* ============================================ the scheduler again: C18 to C20
\* C18: for every task, Command.Started implies that StartTime is set, and
\* Command.Complete implies Started, StopTime set and ReturnCode defined.
C18_StartedHasStartTime ==
    \A i \in TaskIds :
        /\ Command[i].Started => Command[i].StartTime # ZeroTime
        /\ Command[i].Complete =>
              /\ Command[i].Started
              /\ Command[i].StopTime # ZeroTime
              /\ Command[i].ReturnCode # UndefinedRC

\* C19: the scheduler uses a task's LogChan only while it is open: it never
\* closes or sends on a channel the runner has not made yet, never sends on
\* one it has closed, and closes it once, when the task completes; when
\* Process returns the channel of every child it started is closed.
C19_LogChanOpenWhenUsed ==
    /\ pc \notin {"panic", "blocked"}
    /\ \A i \in TaskIds : LogChan[i] = "closed" <=> Command[i].Complete
    /\ pc = "returned" =>
          \A i \in Range(Group) : Command[i].Started => LogChan[i] = "closed"

\* The scheduler has handled the first record of a runner that has not made
\* its LogChan yet, after it closed the channel of another task.
C19_Witness ==
    \E i, j \in TaskIds :
        /\ LogChan[j] = "closed"
        /\ rpc[i] = "setup"
        /\ LogChan[i] = "nil"
        /\ Display[i].Status = StatusRunning
        /\ \A k \in 1..Len(resultChan) : resultChan[k].Task # i

\* The runner of task i can take a step.
RunnerCanStep(i) ==
    ENABLED (RunStart(i) \/ RunSpawn(i) \/ RunWait(i) \/ RunSignal(i))

\* C20: Process returns, and then every child it started is complete and
\* runningCmds is 0; it never waits for ever on resultChan with a child still
\* to run: while its loop runs, a record is in flight or the runner of a
\* started child that has not completed can take a step.
C20_ProcessReturns ==
    /\ pc = "returned" =>
          /\ runningCmds = 0
          /\ \A i \in Range(Group) : Command[i].Started => Command[i].Complete
    /\ (pc = "loop" /\ LoopRuns(runningCmds)) =>
          \/ resultChan # <<>>
          \/ \E i \in RunningChildren(cur) : RunnerCanStep(i)

====
